---------------------------- MODULE Spec2Model ----------------------------
(***************************************************************************)
(* tracked_dict: TrackedDict / TrackedList, wrappers over a decoded        *)
(* JSON-like tree that record which keys were read and report the dotted   *)
(* paths of the keys never touched.                                        *)
(*                                                                         *)
(* Strings (keys, paths) are sequences of code points, so that composition *)
(* (f-strings), str(index) and sorted() are computed as Python computes    *)
(* them.  Tracked nodes live in a heap; a node's identity is its index in  *)
(* the heap, a reference to a node is NodeRef(id).                         *)
(***************************************************************************)
EXTENDS Integers, Sequences, FiniteSets, TLC

VARIABLES heap, last, held, threads

vars == <<heap, last, held, threads>>

(***************************************************************************)
(* Raw values: the decoded tree the caller owns.                           *)
(***************************************************************************)
Scalar(x) == [t |-> "scalar", v |-> x]

KV(key, value) == [k |-> key, v |-> value]

\* A raw dict: its items in insertion order (the order iteration follows).
Dict(items) == [t |-> "dict", items |-> items]

\* A raw list.
List(items) == [t |-> "list", items |-> items]

None == [t |-> "none"]

IsContainer(value) == value.t \in {"dict", "list"}

\* Code points of the characters that occur in keys and paths.
chDot == 46

chLBracket == 91

chRBracket == 93

chMinus == 45

chZero == 48

ka == <<97>>

kb == <<98>>

kc == <<99>>

kd == <<100>>

kz == <<122>>

kEmpty == <<>>

kSection == <<115>>

\* The key "a.b", which reads like the path of key b below key a.
kaDotb == <<97, 46, 98>>

\* {"a": {"b": [{"c": 1, "d": 2}]}}   (test_path_formatting)
TreeDeep == Dict(<<KV(ka, Dict(<<KV(kb, List(<<Dict(<<KV(kc, Scalar(1)), KV(kd, Scalar(2))>>)>>))>>))>>)

\* [{"a": 1, "b": 2}, 7]               (test_nested_dict_in_list, with a scalar element)
TreeRootList == List(<<Dict(<<KV(ka, Scalar(1)), KV(kb, Scalar(2))>>), Scalar(7)>>)

\* {"s": {"b": 1, "a": 2}, "c": 3}     (test_mark_accessed_skips_nested_report, widened)
TreeSection == Dict(<<KV(kSection, Dict(<<KV(kb, Scalar(1)), KV(ka, Scalar(2))>>)), KV(kc, Scalar(3))>>)

\* [[[]]]                              (sequences in sequences, as in test_nested_list_in_list)
TreeListInList == List(<<List(<<List(<<>>)>>)>>)

\* {"a.b": 1, "a": {"b": 2}}           a key that contains the separator
TreeDotKey == Dict(<<KV(kaDotb, Scalar(1)), KV(ka, Dict(<<KV(kb, Scalar(2))>>))>>)

\* {"": {"a": 1}, "a": 2}              the empty key
TreeEmptyKey == Dict(<<KV(kEmpty, Dict(<<KV(ka, Scalar(1))>>)), KV(ka, Scalar(2))>>)

\* {"b": 1, "a": 2, "c": 3}             (test_unaccessed_all, keys out of order)
TreeFlat == Dict(<<KV(kb, Scalar(1)), KV(ka, Scalar(2)), KV(kc, Scalar(3))>>)

\* {}                                  (test_len, test_bool)
TreeEmpty == Dict(<<>>)

RawTrees == {TreeDeep, TreeRootList, TreeSection, TreeListInList, TreeDotKey, TreeEmptyKey, TreeFlat, TreeEmpty}

\* Keys a caller may ask for that no raw mapping of the trees holds.
AbsentKeys == {kz}

\* The most keys one mark_accessed(*keys) call is given.
MaxMarkKeys == 2

\* How far beyond either end of a sequence the caller's indices go.
MaxBeyond == 1

(***************************************************************************)
(* Python's operations on the raw values.                                  *)
(***************************************************************************)
RawKeys(data) == {data.items[i].k : i \in DOMAIN data.items}

\* key in self._data
HasKey(data, key) == key \in RawKeys(data)

\* self._data[key], for a key the mapping holds
Lookup(data, key) == data.items[CHOOSE i \in DOMAIN data.items : data.items[i].k = key].v

\* Bounds that take no index from the end: 0 .. len-1 only.
ValidIndexNonNegative(data, index) == index >= 0 /\ index < Len(data.items)

\* The indices self._data[index] accepts: -len .. len-1.
ValidIndex(data, index) == index >= -Len(data.items) /\ index < Len(data.items)

\* self._data[index], for a valid index (a negative one counts from the end)
ListItem(data, index) == IF index >= 0 THEN data.items[index + 1] ELSE data.items[Len(data.items) + index + 1]

RECURSIVE RawEq(_, _)
\* Python's == on raw values: mappings compare as sets of items whatever their
\* order, sequences element by element.
RawEq(x, y) ==
  IF x.t # y.t THEN FALSE
  ELSE IF x.t = "dict" THEN
    /\ RawKeys(x) = RawKeys(y)
    /\ \A key \in RawKeys(x) : RawEq(Lookup(x, key), Lookup(y, key))
  ELSE IF x.t = "list" THEN
    /\ Len(x.items) = Len(y.items)
    /\ \A i \in DOMAIN x.items : RawEq(x.items[i], y.items[i])
  ELSE x = y

(***************************************************************************)
(* Strings: str(int), comparison by code point, sorted().                  *)
(***************************************************************************)
RECURSIVE Digits(_)
Digits(n) == IF n < 10 THEN <<chZero + n>> ELSE Digits(n \div 10) \o <<chZero + (n % 10)>>

\* str(index)
IntToStr(i) == IF i < 0 THEN <<chMinus>> \o Digits(-i) ELSE Digits(i)

RECURSIVE StrLess(_, _)
\* s < t for Python strings: the first differing code point decides, a proper
\* prefix is smaller.
StrLess(s, t) ==
  IF t = <<>> THEN FALSE
  ELSE IF s = <<>> THEN TRUE
  ELSE IF Head(s) # Head(t) THEN Head(s) < Head(t)
  ELSE StrLess(Tail(s), Tail(t))

RECURSIVE Insert(_, _)
\* p placed into the sorted list l, after the elements equal to it.
Insert(l, p) ==
  IF l = <<>> THEN <<p>>
  ELSE IF StrLess(p, Head(l)) THEN <<p>> \o l
  ELSE <<Head(l)>> \o Insert(Tail(l), p)

\* unaccessed() returning its result list as collected.
NotSorted(l) == l

RECURSIVE Sorted(_)
\* sorted(result)
Sorted(l) == IF l = <<>> THEN <<>> ELSE Insert(Sorted(SubSeq(l, 1, Len(l) - 1)), l[Len(l)])

(***************************************************************************)
(* Tracked nodes.                                                          *)
(***************************************************************************)
\* isinstance(value, dict) -> TrackedDict(...), isinstance(value, list) ->
\* TrackedList(...)
ClassFor(value) == IF value.t = "dict" THEN "TrackedDict" ELSE "TrackedList"

\* TrackedDict.__init__ / TrackedList.__init__: the slots of a new node.  A
\* TrackedList has no _accessed slot: its accessed field stays empty.
\* cls is the class of the node: the one the caller constructs the root with,
\* the one the isinstance tests of _wrap choose for a child.
NewNode(data, path) ==
  [data |-> data, path |-> path, accessed |-> {}, children |-> <<>>, cls |-> ClassFor(data)]

NodeRef(id) == [t |-> "node", id |-> id]

\* _child_path without its rule for an empty parent path.
ChildPathAlwaysDot(path, key) == path \o <<chDot>> \o key

\* TrackedDict._child_path
ChildPath(path, key) == IF path # <<>> THEN path \o <<chDot>> \o key ELSE key

\* f"{self._path}[{index}]" of TrackedList._wrap
IndexPath(path, index) == path \o <<chLBracket>> \o IntToStr(index) \o <<chRBracket>>

\* The path _wrap gives the child of node n under a key (map) or an index (sequence).
PathUnder(h, n, k) == IF h[n].cls = "TrackedDict" THEN ChildPath(h[n].path, k) ELSE IndexPath(h[n].path, k)

\* The check `key not in self._children` of _wrap.
Cached(h, n, k) == k \in DOMAIN h[n].children

\* _wrap without its `not in self._children` check: a new child on every call.
WrapHeapNoCache(h, n, k, value) ==
  IF IsContainer(value)
  THEN Append([h EXCEPT ![n].children = (k :> Len(h) + 1) @@ @], NewNode(value, PathUnder(h, n, k)))
  ELSE h

\* TrackedDict._wrap / TrackedList._wrap, the heap after the call: a mapping or
\* sequence value gets a child node on the first call, cached under k.
WrapHeap(h, n, k, value) ==
  IF IsContainer(value) /\ ~Cached(h, n, k)
  THEN Append([h EXCEPT ![n].children = @ @@ (k :> Len(h) + 1)], NewNode(value, PathUnder(h, n, k)))
  ELSE h

\* TrackedDict._wrap / TrackedList._wrap, the value returned: the cached child
\* for a mapping or sequence, the value itself otherwise.
WrapRet(h, n, k, value) == IF IsContainer(value) THEN NodeRef(WrapHeap(h, n, k, value)[n].children[k]) ELSE value

\* self._accessed.update(keys) written as an assignment: the keys replace the set.
MarkKeysReplace(h, n, keys) == [h EXCEPT ![n].accessed = keys]

\* self._accessed.add(key) / self._accessed.update(keys)
MarkKeys(h, n, keys) == [h EXCEPT ![n].accessed = @ \cup keys]

\* A sequence's unaccessed() reporting the path of every element it has no
\* child for, the way a mapping reports its unread keys.
ListCollectElements(h, n, ks) ==
  LET missing == {i \in 0 .. Len(h[n].data.items) - 1 : i \notin ks}
      path[i \in 0 .. Len(h[n].data.items) - 1] == IF i \in missing THEN <<IndexPath(h[n].path, i)>> ELSE <<>>
      RECURSIVE Cat(_)
      Cat(i) == IF i < 0 THEN <<>> ELSE Cat(i - 1) \o path[i]
  IN Cat(Len(h[n].data.items) - 1)

\* The loop of unaccessed() without its elif branch: the unread keys of the
\* node itself and nothing from the children.
DictCollectOwn(h, n, i) ==
  LET own == {j \in i .. Len(h[n].data.items) : h[n].data.items[j].k \notin h[n].accessed}
      path[j \in 1 .. Len(h[n].data.items)] == IF j \in own THEN <<ChildPath(h[n].path, h[n].data.items[j].k)>> ELSE <<>>
      RECURSIVE Cat(_)
      Cat(j) == IF j > Len(h[n].data.items) THEN <<>> ELSE path[j] \o Cat(j + 1)
  IN Cat(i)

RECURSIVE Unaccessed(_, _)
RECURSIVE DictCollect(_, _, _)
RECURSIVE ListCollect(_, _, _)
\* The loop of TrackedDict.unaccessed over the items from position i on.
DictCollect(h, n, i) ==
  IF i > Len(h[n].data.items) THEN <<>>
  ELSE LET key == h[n].data.items[i].k
           here == IF key \notin h[n].accessed THEN <<ChildPath(h[n].path, key)>>
                   ELSE IF Cached(h, n, key) THEN Unaccessed(h, h[n].children[key])
                   ELSE <<>>
       IN here \o DictCollect(h, n, i + 1)

\* The loop of TrackedList.unaccessed over the cached children ks (one order
\* of self._children.values(); the result is sorted afterwards).
ListCollect(h, n, ks) ==
  IF ks = {} THEN <<>>
  ELSE LET k == CHOOSE x \in ks : TRUE
       IN Unaccessed(h, h[n].children[k]) \o ListCollect(h, n, ks \ {k})

\* TrackedDict.unaccessed / TrackedList.unaccessed
Unaccessed(h, n) ==
  IF h[n].cls = "TrackedDict" THEN Sorted(DictCollect(h, n, 1))
  ELSE Sorted(ListCollect(h, n, DOMAIN h[n].children))

(***************************************************************************)
(* The caller.  Every operation is applied to a node the caller can hold   *)
(* (each node of the heap was handed out by the read that created it).     *)
(* The library is single-threaded and synchronous: the caller makes one    *)
(* call, `last` holds that call and what it returned, and the caller goes  *)
(* on to its next call (Resume).                                           *)
(***************************************************************************)
Call(op, n, arg, ret) == [op |-> op, node |-> n, arg |-> arg, ret |-> ret]

Error(e) == [t |-> "error", e |-> e]

BoolVal(b) == [t |-> "bool", b |-> b]

IntVal(i) == [t |-> "int", i |-> i]

\* No concurrent callers: one thread makes the calls.
NoThreads == [useLock |-> FALSE, owner |-> 0, th |-> <<>>]

\* The caller is between two calls.
Ready == last.op = "idle"

IsDict(n) == heap[n].cls = "TrackedDict"

IsList(n) == heap[n].cls = "TrackedList"

\* The nodes the caller holds, by class.
DictNodes == {n \in DOMAIN heap : IsDict(n)}

ListNodes == {n \in DOMAIN heap : IsList(n)}

\* The keys the caller passes to the operations of map node n.
KeysFor(n) == RawKeys(heap[n].data) \cup AbsentKeys

\* The key tuples the caller passes to mark_accessed(*keys), as sets.
KeySetsFor(n) == {ks \in SUBSET KeysFor(n) : Cardinality(ks) <= MaxMarkKeys}

\* How many times a consumer may call next() on a generator over node n: not
\* at all, part of the way, to the last element, or until it is exhausted.
NextCalls(n) == 0 .. Len(heap[n].data.items) + 1

\* The defaults the caller passes to get().
Defaults == {None, Dict(<<KV(ka, Scalar(1))>>), List(<<Scalar(1)>>)}

\* The indices the caller passes to a sequence node: the valid ones and
\* MaxBeyond beyond each end.
IndicesFor(n) == (-(Len(heap[n].data.items) + MaxBeyond)) .. (Len(heap[n].data.items) - 1 + MaxBeyond)

\* The items range(len(self._data)) walks, each index with its element.
Indexed(data) == [i \in DOMAIN data.items |-> KV(i - 1, data.items[i])]

RECURSIVE Consume(_, _, _, _, _)
\* The first c elements of kvs passed through _wrap in order, as the loops of
\* values(), items() and TrackedList.__iter__ do while the consumer advances
\* them: the heap reached and the elements yielded (with the key, for items()).
Consume(h, n, kvs, c, pairs) ==
  IF c = 0 THEN [h |-> h, out |-> <<>>]
  ELSE LET prev == Consume(h, n, kvs, c - 1, pairs)
           kv == kvs[c]
           r == WrapRet(prev.h, n, kv.k, kv.v)
       IN [h |-> WrapHeap(prev.h, n, kv.k, kv.v),
           out |-> Append(prev.out, IF pairs THEN KV(kv.k, r) ELSE r)]

Min(a, b) == IF a < b THEN a ELSE b

\* What a generator hands its consumer in c calls of next(): the elements
\* yielded and whether it was exhausted.
Yielded(out, c, len) == [t |-> "yielded", items |-> out, done |-> c > len]

\* __getitem__ without its self._accessed.add(key).
GetItemHeapNoMark(h, n, key) ==
  IF HasKey(h[n].data, key) THEN WrapHeap(h, n, key, Lookup(h[n].data, key)) ELSE h

\* TrackedDict.__getitem__
GetItemHeap(h, n, key) ==
  IF HasKey(h[n].data, key)
  THEN WrapHeap(MarkKeys(h, n, {key}), n, key, Lookup(h[n].data, key))
  ELSE MarkKeys(h, n, {key})

GetItem(n, key) ==
  /\ Ready
  /\ UNCHANGED <<held, threads>>
  /\ IsDict(n)
  /\ heap' = GetItemHeap(heap, n, key)
  /\ last' = Call("getitem", n, key,
                  IF HasKey(heap[n].data, key)
                  THEN WrapRet(MarkKeys(heap, n, {key}), n, key, Lookup(heap[n].data, key))
                  ELSE Error("KeyError"))

\* get() marking the key only when the mapping holds it.
GetHeapSkipAbsent(h, n, key) ==
  IF HasKey(h[n].data, key)
  THEN WrapHeap(MarkKeys(h, n, {key}), n, key, Lookup(h[n].data, key))
  ELSE h

\* TrackedDict.get
GetHeap(h, n, key) ==
  IF HasKey(h[n].data, key)
  THEN WrapHeap(MarkKeys(h, n, {key}), n, key, Lookup(h[n].data, key))
  ELSE MarkKeys(h, n, {key})

GetRet(h, n, key, default) ==
  IF HasKey(h[n].data, key)
  THEN WrapRet(MarkKeys(h, n, {key}), n, key, Lookup(h[n].data, key))
  ELSE default

Get(n, key, default) ==
  /\ Ready
  /\ UNCHANGED <<held, threads>>
  /\ IsDict(n)
  /\ heap' = GetHeap(heap, n, key)
  /\ last' = Call("get", n, <<key, default>>, GetRet(heap, n, key, default))

\* A membership test that counts as a read of the key.
ContainsMarking(n, key) ==
  /\ Ready
  /\ UNCHANGED <<held, threads>>
  /\ IsDict(n)
  /\ heap' = MarkKeys(heap, n, {key})
  /\ last' = Call("contains", n, key, BoolVal(HasKey(heap[n].data, key)))

\* TrackedDict.__contains__
Contains(n, key) ==
  /\ Ready
  /\ UNCHANGED <<held, threads>>
  /\ IsDict(n)
  /\ heap' = heap
  /\ last' = Call("contains", n, key, BoolVal(HasKey(heap[n].data, key)))

\* TrackedDict.__len__
DictLen(n) ==
  /\ Ready
  /\ UNCHANGED <<held, threads>>
  /\ IsDict(n)
  /\ heap' = heap
  /\ last' = Call("len", n, None, IntVal(Len(heap[n].data.items)))

\* TrackedDict.__bool__
DictBool(n) ==
  /\ Ready
  /\ UNCHANGED <<held, threads>>
  /\ IsDict(n)
  /\ heap' = heap
  /\ last' = Call("bool", n, None, BoolVal(Len(heap[n].data.items) > 0))

\* TrackedDict.__iter__
DictIter(n) ==
  /\ Ready
  /\ UNCHANGED <<held, threads>>
  /\ IsDict(n)
  /\ heap' = heap
  /\ last' = Call("iter", n, None, [t |-> "keys", keys |-> [i \in DOMAIN heap[n].data.items |-> heap[n].data.items[i].k]])

\* TrackedDict.keys
Keys(n) ==
  /\ Ready
  /\ UNCHANGED <<held, threads>>
  /\ IsDict(n)
  /\ heap' = heap
  /\ last' = Call("keys", n, None, [t |-> "keys", keys |-> [i \in DOMAIN heap[n].data.items |-> heap[n].data.items[i].k]])

\* TrackedDict.values, a generator function: the call runs none of its body;
\* the first next() runs the update of _accessed and each next() wraps one more
\* value.  c is the number of next() calls the consumer makes.
ValuesHeap(h, n, c) ==
  IF c = 0 THEN h
  ELSE Consume(MarkKeys(h, n, RawKeys(h[n].data)), n, h[n].data.items, Min(c, Len(h[n].data.items)), FALSE).h

Values(n, c) ==
  /\ Ready
  /\ UNCHANGED <<held, threads>>
  /\ IsDict(n)
  /\ heap' = ValuesHeap(heap, n, c)
  /\ last' = Call("values", n, c,
                  Yielded(Consume(MarkKeys(heap, n, RawKeys(heap[n].data)), n, heap[n].data.items,
                                  Min(c, Len(heap[n].data.items)), FALSE).out,
                          c, Len(heap[n].data.items)))

\* TrackedDict.items, a generator function like values().
ItemsHeap(h, n, c) ==
  IF c = 0 THEN h
  ELSE Consume(MarkKeys(h, n, RawKeys(h[n].data)), n, h[n].data.items, Min(c, Len(h[n].data.items)), TRUE).h

Items(n, c) ==
  /\ Ready
  /\ UNCHANGED <<held, threads>>
  /\ IsDict(n)
  /\ heap' = ItemsHeap(heap, n, c)
  /\ last' = Call("items", n, c,
                  Yielded(Consume(MarkKeys(heap, n, RawKeys(heap[n].data)), n, heap[n].data.items,
                                  Min(c, Len(heap[n].data.items)), TRUE).out,
                          c, Len(heap[n].data.items)))

\* TrackedDict.raw
DictRaw(n) ==
  /\ Ready
  /\ UNCHANGED <<held, threads>>
  /\ IsDict(n)
  /\ heap' = heap
  /\ last' = Call("raw", n, None, heap[n].data)

\* mark_accessed() that records nothing.
MarkAccessedNothing(h, n, keys) == h

\* TrackedDict.mark_accessed
MarkAccessedHeap(h, n, keys) == MarkKeys(h, n, keys)

MarkAccessed(n, keys) ==
  /\ Ready
  /\ UNCHANGED <<held, threads>>
  /\ IsDict(n)
  /\ heap' = MarkAccessedHeap(heap, n, keys)
  /\ last' = Call("mark_accessed", n, keys, None)

\* mark_all_accessed() that also marks every key of the wrapped children.
MarkAllAccessedDeep(h, n) ==
  [m \in DOMAIN h |->
     IF h[m].data.t = "dict" /\ (m = n \/ \E k \in DOMAIN h[n].children : h[n].children[k] = m)
     THEN [h[m] EXCEPT !.accessed = @ \cup RawKeys(h[m].data)]
     ELSE h[m]]

\* TrackedDict.mark_all_accessed
MarkAllAccessedHeap(h, n) == MarkKeys(h, n, RawKeys(h[n].data))

MarkAllAccessed(n) ==
  /\ Ready
  /\ UNCHANGED <<held, threads>>
  /\ IsDict(n)
  /\ heap' = MarkAllAccessedHeap(heap, n)
  /\ last' = Call("mark_all_accessed", n, None, None)

\* TrackedDict.unaccessed
DictUnaccessed(n) ==
  /\ Ready
  /\ UNCHANGED <<held, threads>>
  /\ IsDict(n)
  /\ heap' = heap
  /\ last' = Call("unaccessed", n, None, [t |-> "paths", paths |-> Unaccessed(heap, n)])

\* A set object in the caller's hands.  A set made by set(...) is an object of
\* its own and carries its keys; a reference to a node's _accessed (live)
\* shows whatever that set holds.  node is the node accessed_keys() was called
\* on, 0 while the caller holds no set.
SetObject(n, live, keys) == [node |-> n, live |-> live, keys |-> keys]

NoSet == SetObject(0, FALSE, {})

\* accessed_keys() returning self._accessed itself.
AccessedKeysLive(h, n) == SetObject(n, TRUE, {})

\* TrackedDict.accessed_keys, the object returned: set(self._accessed), a copy.
AccessedKeysRet(h, n) == SetObject(n, FALSE, h[n].accessed)

\* The keys a set object holds.
SetKeys(h, s) == IF s.live THEN h[s.node].accessed ELSE s.keys

\* TrackedDict.accessed_keys
AccessedKeys(n) ==
  /\ Ready
  /\ UNCHANGED <<held, threads>>
  /\ IsDict(n)
  /\ heap' = heap
  /\ last' = Call("accessed_keys", n, None, [t |-> "set", keys |-> heap[n].accessed])

\* A plain mapping with the items of data inserted in the opposite order (a
\* sequence is left as it is).
Reordered(data) ==
  IF data.t = "dict" THEN Dict([i \in DOMAIN data.items |-> data.items[Len(data.items) + 1 - i]]) ELSE data

\* __eq__ that also compares what was accessed, for two tracked nodes.
EqResultTracking(h, n, other) ==
  IF other.t = "node"
  THEN IF h[other.id].data.t = h[n].data.t
       THEN RawEq(h[n].data, h[other.id].data) /\ h[n].accessed = h[other.id].accessed
       ELSE other.id = n
  ELSE IF other.t = h[n].data.t THEN RawEq(h[n].data, other)
  ELSE FALSE

\* What the caller compares a node with: a tracked node, a plain mapping or
\* sequence, a scalar.
EqOperands ==
  {NodeRef(m) : m \in DOMAIN heap} \cup {heap[m].data : m \in DOMAIN heap}
    \cup {Reordered(heap[m].data) : m \in DOMAIN heap} \cup {Dict(<<>>), Scalar(1)}

\* TrackedDict.__eq__ / TrackedList.__eq__ of a node whose raw value has type t
\* ("dict" or "list").  For any other operand the method returns
\* NotImplemented, the operand's own __eq__ does too, and Python's == falls back
\* to identity: False.
EqResult(h, n, other) ==
  IF other.t = "node"
  THEN IF h[other.id].data.t = h[n].data.t THEN RawEq(h[n].data, h[other.id].data) ELSE other.id = n
  ELSE IF other.t = h[n].data.t THEN RawEq(h[n].data, other)
  ELSE FALSE

\* TrackedDict.__eq__
DictEq(n, other) ==
  /\ Ready
  /\ UNCHANGED <<held, threads>>
  /\ IsDict(n)
  /\ heap' = heap
  /\ last' = Call("eq", n, other, BoolVal(EqResult(heap, n, other)))

\* TrackedList.__getitem__
ListGetItemHeap(h, n, index) ==
  IF ValidIndex(h[n].data, index) THEN WrapHeap(h, n, index, ListItem(h[n].data, index)) ELSE h

ListGetItem(n, index) ==
  /\ Ready
  /\ UNCHANGED <<held, threads>>
  /\ IsList(n)
  /\ heap' = ListGetItemHeap(heap, n, index)
  /\ last' = Call("getitem", n, index,
                  IF ValidIndex(heap[n].data, index)
                  THEN WrapRet(heap, n, index, ListItem(heap[n].data, index))
                  ELSE Error("IndexError"))

\* TrackedList.__len__
ListLen(n) ==
  /\ Ready
  /\ UNCHANGED <<held, threads>>
  /\ IsList(n)
  /\ heap' = heap
  /\ last' = Call("len", n, None, IntVal(Len(heap[n].data.items)))

\* TrackedList.__bool__
ListBool(n) ==
  /\ Ready
  /\ UNCHANGED <<held, threads>>
  /\ IsList(n)
  /\ heap' = heap
  /\ last' = Call("bool", n, None, BoolVal(Len(heap[n].data.items) > 0))

\* TrackedList.__iter__, a generator function: each next() wraps one more
\* element.  c is the number of next() calls the consumer makes.
ListIterHeap(h, n, c) == Consume(h, n, Indexed(h[n].data), Min(c, Len(h[n].data.items)), FALSE).h

ListIter(n, c) ==
  /\ Ready
  /\ UNCHANGED <<held, threads>>
  /\ IsList(n)
  /\ heap' = ListIterHeap(heap, n, c)
  /\ last' = Call("iter", n, c,
                  Yielded(Consume(heap, n, Indexed(heap[n].data), Min(c, Len(heap[n].data.items)), FALSE).out,
                          c, Len(heap[n].data.items)))

\* TrackedList.raw
ListRaw(n) ==
  /\ Ready
  /\ UNCHANGED <<held, threads>>
  /\ IsList(n)
  /\ heap' = heap
  /\ last' = Call("raw", n, None, heap[n].data)

\* TrackedList.unaccessed
ListUnaccessed(n) ==
  /\ Ready
  /\ UNCHANGED <<held, threads>>
  /\ IsList(n)
  /\ heap' = heap
  /\ last' = Call("unaccessed", n, None, [t |-> "paths", paths |-> Unaccessed(heap, n)])

\* TrackedList.__eq__
ListEq(n, other) ==
  /\ Ready
  /\ UNCHANGED <<held, threads>>
  /\ IsList(n)
  /\ heap' = heap
  /\ last' = Call("eq", n, other, BoolVal(EqResult(heap, n, other)))

\* TrackedDict(data) / TrackedList(data): the root node over the caller's tree.
Init ==
  \E tree \in RawTrees :
    /\ heap = <<NewNode(tree, <<>>)>>
    /\ last = Call("init", 1, None, NodeRef(1))
    /\ held = NoSet
    /\ threads = NoThreads

\* The caller has taken the result of its last call and is ready for the next.
Resume ==
  /\ ~Ready
  /\ UNCHANGED <<held, threads>>
  /\ heap' = heap
  /\ last' = Call("idle", 0, None, None)

Next ==
  \/ Resume
  \/ \E n \in DictNodes : \E key \in KeysFor(n) : GetItem(n, key)
  \/ \E n \in DictNodes : \E key \in KeysFor(n), default \in Defaults : Get(n, key, default)
  \/ \E n \in DictNodes : \E key \in KeysFor(n) : Contains(n, key)
  \/ \E n \in DictNodes : DictLen(n)
  \/ \E n \in DictNodes : DictBool(n)
  \/ \E n \in DictNodes : DictIter(n)
  \/ \E n \in DictNodes : Keys(n)
  \/ \E n \in DictNodes : \E c \in NextCalls(n) : Values(n, c)
  \/ \E n \in DictNodes : \E c \in NextCalls(n) : Items(n, c)
  \/ \E n \in DictNodes : DictRaw(n)
  \/ \E n \in DictNodes : \E keys \in KeySetsFor(n) : MarkAccessed(n, keys)
  \/ \E n \in DictNodes : MarkAllAccessed(n)
  \/ \E n \in DictNodes : DictUnaccessed(n)
  \/ \E n \in DictNodes : AccessedKeys(n)
  \/ \E n \in DictNodes : \E other \in EqOperands : DictEq(n, other)
  \/ \E n \in ListNodes : \E index \in IndicesFor(n) : ListGetItem(n, index)
  \/ \E n \in ListNodes : ListLen(n)
  \/ \E n \in ListNodes : ListBool(n)
  \/ \E n \in ListNodes : \E c \in NextCalls(n) : ListIter(n, c)
  \/ \E n \in ListNodes : ListRaw(n)
  \/ \E n \in ListNodes : ListUnaccessed(n)
  \/ \E n \in ListNodes : \E other \in EqOperands : ListEq(n, other)

Spec == Init /\ [][Next]_vars

(***************************************************************************)
(* The caller keeps the set accessed_keys() returned, goes on reading and  *)
(* marking, and changes the set it was given.                              *)
(***************************************************************************)
\* The trees of the runs in which the caller keeps a returned set.
SnapTrees == {TreeSection, TreeFlat, TreeDotKey}

\* TrackedDict.accessed_keys, the caller keeping the set returned.
AccessedKeysKept(n) ==
  /\ Ready
  /\ IsDict(n)
  /\ heap' = heap
  /\ held' = AccessedKeysRet(heap, n)
  /\ threads' = threads
  /\ last' = Call("accessed_keys", n, None, [t |-> "set", keys |-> SetKeys(heap, AccessedKeysRet(heap, n))])

\* The keys the caller adds to or discards from the set it holds.
HeldKeysFor == IF held.node = 0 THEN {} ELSE KeysFor(held.node)

\* The caller's s.add(key) on the set it holds.
HeldAdd(key) ==
  /\ Ready
  /\ held.node # 0
  /\ IF held.live
     THEN heap' = [heap EXCEPT ![held.node].accessed = @ \cup {key}] /\ held' = held
     ELSE heap' = heap /\ held' = [held EXCEPT !.keys = @ \cup {key}]
  /\ last' = Call("set.add", held.node, key, None)
  /\ threads' = threads

\* The caller's s.discard(key) on the set it holds.
HeldDiscard(key) ==
  /\ Ready
  /\ held.node # 0
  /\ IF held.live
     THEN heap' = [heap EXCEPT ![held.node].accessed = @ \ {key}] /\ held' = held
     ELSE heap' = heap /\ held' = [held EXCEPT !.keys = @ \ {key}]
  /\ last' = Call("set.discard", held.node, key, None)
  /\ threads' = threads

SnapInit ==
  \E tree \in SnapTrees :
    /\ heap = <<NewNode(tree, <<>>)>>
    /\ last = Call("init", 1, None, NodeRef(1))
    /\ held = NoSet
    /\ threads = NoThreads

SnapNext ==
  \/ Resume
  \/ \E n \in DictNodes : \E key \in KeysFor(n) : GetItem(n, key)
  \/ \E n \in DictNodes : \E key \in KeysFor(n) : Get(n, key, None)
  \/ \E n \in DictNodes : \E c \in NextCalls(n) : Values(n, c)
  \/ \E n \in DictNodes : \E keys \in KeySetsFor(n) : MarkAccessed(n, keys)
  \/ \E n \in DictNodes : MarkAllAccessed(n)
  \/ \E n \in DictNodes : DictUnaccessed(n)
  \/ \E n \in DictNodes : AccessedKeysKept(n)
  \/ \E key \in HeldKeysFor : HeldAdd(key)
  \/ \E key \in HeldKeysFor : HeldDiscard(key)

SnapSpec == SnapInit /\ [][SnapNext]_vars

(***************************************************************************)
(* Two threads read the root node at the same time.  A thread may be       *)
(* switched out between any two steps of __getitem__ and _wrap: after the  *)
(* add to _accessed, after the `not in self._children` check, after the    *)
(* store into the cache.  The callers either hold one lock of their own    *)
(* around each read (useLock) or none.                                     *)
(***************************************************************************)
RaceThreads == {1, 2}

\* The trees the two threads read: a map and a sequence at the root.
RaceTrees == {TreeSection, TreeRootList}

\* A thread's position in its read: the key or index it reads, what the check
\* of _wrap found, the value returned.
Thread(pc, key, miss, ret) == [pc |-> pc, key |-> key, miss |-> miss, ret |-> ret]

\* The keys or indices the threads read on node n.
RaceKeysFor(n) == IF IsDict(n) THEN RawKeys(heap[n].data) ELSE 0 .. (Len(heap[n].data.items) - 1)

\* The raw value node n holds under key or index k.
RawAt(h, n, k) == IF h[n].data.t = "dict" THEN Lookup(h[n].data, k) ELSE ListItem(h[n].data, k)

\* The check of _wrap finding no child, whatever the cache holds.
MissAlways(h, n, k) == TRUE

\* `key not in self._children`, the check of _wrap
Miss(h, n, k) == ~Cached(h, n, k)

\* self._children[key] = TrackedDict(value, path): a node is constructed and
\* stored under the key, in place of whatever the cache holds there.
InsertChild(h, n, k, value) ==
  Append([h EXCEPT ![n].children = (k :> Len(h) + 1) @@ @], NewNode(value, PathUnder(h, n, k)))

\* Thread t calls root[k]; with the callers' lock, once the lock is free.
RBegin(t, k) ==
  /\ threads.th[t].pc = "idle"
  /\ threads.useLock => threads.owner = 0
  /\ threads' = [threads EXCEPT !.owner = IF threads.useLock THEN t ELSE 0,
                                !.th[t] = Thread(IF IsDict(1) THEN "add" ELSE "wrap", k, FALSE, None)]
  /\ UNCHANGED <<heap, last, held>>

\* __getitem__ of a map: self._accessed.add(key)
RAdd(t) ==
  /\ threads.th[t].pc = "add"
  /\ heap' = MarkKeys(heap, 1, {threads.th[t].key})
  /\ threads' = [threads EXCEPT !.th[t].pc = "wrap"]
  /\ UNCHANGED <<last, held>>

\* _wrap: the isinstance tests and the check of the cache.  Any other value is
\* returned as it is, and the read is over.
RCheck(t) ==
  /\ threads.th[t].pc = "wrap"
  /\ LET k == threads.th[t].key
         value == RawAt(heap, 1, k)
     IN IF IsContainer(value)
        THEN threads' = [threads EXCEPT !.th[t].miss = Miss(heap, 1, k),
                                        !.th[t].pc = IF Miss(heap, 1, k) THEN "insert" ELSE "return"]
        ELSE threads' = [threads EXCEPT !.owner = 0, !.th[t].ret = value, !.th[t].pc = "done"]
  /\ UNCHANGED <<heap, last, held>>

\* _wrap: the store of a new child, by a thread whose check found none.
RInsert(t) ==
  /\ threads.th[t].pc = "insert"
  /\ heap' = InsertChild(heap, 1, threads.th[t].key, RawAt(heap, 1, threads.th[t].key))
  /\ threads' = [threads EXCEPT !.th[t].pc = "return"]
  /\ UNCHANGED <<last, held>>

\* _wrap: return self._children[key]; the read is over and the lock released.
RReturn(t) ==
  /\ threads.th[t].pc = "return"
  /\ threads' = [threads EXCEPT !.owner = 0,
                                !.th[t].ret = NodeRef(heap[1].children[threads.th[t].key]),
                                !.th[t].pc = "done"]
  /\ UNCHANGED <<heap, last, held>>

RaceInit ==
  \E tree \in RaceTrees : \E useLock \in BOOLEAN :
    /\ heap = <<NewNode(tree, <<>>)>>
    /\ last = Call("init", 1, None, NodeRef(1))
    /\ held = NoSet
    /\ threads = [useLock |-> useLock, owner |-> 0, th |-> [t \in RaceThreads |-> Thread("idle", None, FALSE, None)]]

RaceNext ==
  \/ \E t \in RaceThreads : \E k \in RaceKeysFor(1) : RBegin(t, k)
  \/ \E t \in RaceThreads : RAdd(t)
  \/ \E t \in RaceThreads : RCheck(t)
  \/ \E t \in RaceThreads : RInsert(t)
  \/ \E t \in RaceThreads : RReturn(t)

RaceSpec == RaceInit /\ [][RaceNext]_vars

(***************************************************************************)
(* What the claims speak of.                                               *)
(***************************************************************************)
Elems(l) == {l[i] : i \in DOMAIN l}

Count(l, p) == Cardinality({i \in DOMAIN l : l[i] = p})

IsSorted(l) == \A i \in DOMAIN l : \A j \in DOMAIN l : i < j => ~StrLess(l[j], l[i])

RECURSIVE Entries(_, _)
\* The walk of unaccessed() from node n, each reported path with the node and
\* the key it is reported for.
Entries(h, n) ==
  IF h[n].cls = "TrackedDict"
  THEN UNION {IF h[n].data.items[i].k \notin h[n].accessed
              THEN {[path |-> ChildPath(h[n].path, h[n].data.items[i].k), node |-> n, key |-> h[n].data.items[i].k]}
              ELSE IF Cached(h, n, h[n].data.items[i].k) THEN Entries(h, h[n].children[h[n].data.items[i].k])
              ELSE {} : i \in DOMAIN h[n].data.items}
  ELSE UNION {Entries(h, h[n].children[k]) : k \in DOMAIN h[n].children}

\* The values a call handed to the caller through _wrap, each with the node
\* and the key or index it was read under.
Reads(h, c) ==
  IF c.op = "getitem" /\ c.ret.t # "error" THEN {[node |-> c.node, k |-> c.arg, v |-> c.ret]}
  ELSE IF c.op = "get" /\ HasKey(h[c.node].data, c.arg[1]) THEN {[node |-> c.node, k |-> c.arg[1], v |-> c.ret]}
  ELSE IF c.op = "values" THEN {[node |-> c.node, k |-> h[c.node].data.items[i].k, v |-> c.ret.items[i]] : i \in DOMAIN c.ret.items}
  ELSE IF c.op = "items" THEN {[node |-> c.node, k |-> c.ret.items[i].k, v |-> c.ret.items[i].v] : i \in DOMAIN c.ret.items}
  ELSE IF c.op = "iter" /\ h[c.node].data.t = "list" THEN {[node |-> c.node, k |-> i - 1, v |-> c.ret.items[i]] : i \in DOMAIN c.ret.items}
  ELSE {}

RECURSIVE Subtree(_, _)
\* Node n and the nodes cached below it.
Subtree(h, n) == {n} \cup UNION {Subtree(h, h[n].children[k]) : k \in DOMAIN h[n].children}

RECURSIVE AllKeys(_)
\* The keys of every mapping of a raw value.
AllKeys(value) ==
  IF value.t = "dict" THEN RawKeys(value) \cup UNION {AllKeys(value.items[i].v) : i \in DOMAIN value.items}
  ELSE IF value.t = "list" THEN UNION {AllKeys(value.items[i]) : i \in DOMAIN value.items}
  ELSE {}

\* A key that is not empty and holds neither '.' nor '['.
PlainKey(key) == key # <<>> /\ \A i \in DOMAIN key : key[i] \notin {chDot, chLBracket}

\* The caller's tree has plain keys only.
PlainTree == \A key \in AllKeys(heap[1].data) : PlainKey(key)

\* The report of node n has an entry for key k of that node.
Reported(h, n, k) == \E e \in Entries(h, n) : e.node = n /\ e.key = k

\* The operations the interface table lists as not marking.
NonMarking(h, c) ==
  \/ c.op \in {"contains", "keys", "len", "bool", "raw", "accessed_keys", "unaccessed", "eq"}
  \/ c.op = "iter" /\ h[c.node].data.t = "dict"

RECURSIVE SumCount(_, _, _, _)
\* How often path p occurs in the unaccessed() lists of the children of node n
\* cached under ks.
SumCount(h, n, ks, p) ==
  IF ks = {} THEN 0
  ELSE LET k == CHOOSE x \in ks : TRUE
       IN Count(Unaccessed(h, h[n].children[k]), p) + SumCount(h, n, ks \ {k}, p)

\* "a.b[0]", "a.b[0].d" and "[0].b"
pathAB0 == <<97, 46, 98, 91, 48, 93>>

pathAB0D == <<97, 46, 98, 91, 48, 93, 46, 100>>

path0B == <<91, 48, 93, 46, 98>>

(***************************************************************************)
(* C1.  Referential stability: every read of a key or index whose raw      *)
(* value is a mapping or sequence returns the child cached under it; a     *)
(* cached child is never replaced, so two reads of the same key or index   *)
(* return the identical node; and a repeated read leaves the child's       *)
(* accessed-set and child cache as they were.                              *)
(***************************************************************************)
C1_ReferentialStability ==
  [][/\ \A r \in Reads(heap', last') :
          IsContainer(RawAt(heap', r.node, r.k)) =>
            /\ Cached(heap', r.node, r.k)
            /\ r.v = NodeRef(heap'[r.node].children[r.k])
     /\ \A n \in DOMAIN heap : \A k \in DOMAIN heap[n].children :
          /\ Cached(heap', n, k)
          /\ heap'[n].children[k] = heap[n].children[k]
          /\ (\E r \in Reads(heap', last') : r.node = n /\ r.k = k) =>
               /\ heap'[heap[n].children[k]].accessed = heap[heap[n].children[k]].accessed
               /\ heap'[heap[n].children[k]].children = heap[heap[n].children[k]].children
    ]_vars

\* A key read again after its child was used: the read returns a node that
\* already holds accessed keys.
C1_Witness ==
  /\ last.op \in {"getitem", "get"}
  /\ last.ret.t = "node"
  /\ heap[last.ret.id].accessed # {}

C4_GetMissing ==
  [][(last'.op = "get" /\ ~HasKey(heap[last'.node].data, last'.arg[1])) =>
       /\ last'.ret = last'.arg[2]
       /\ last'.ret.t # "error"
       /\ heap' = [heap EXCEPT ![last'.node].accessed = @ \cup {last'.arg[1]}]
       /\ last'.arg[1] \in heap'[last'.node].accessed
       /\ heap'[last'.node].children = heap[last'.node].children
       /\ \A m \in DOMAIN heap : Unaccessed(heap', m) = Unaccessed(heap, m)
       /\ ~Reported(heap', last'.node, last'.arg[1])
    ]_vars

\* get() of an absent key with a mapping or sequence as default, on a node
\* that reports unaccessed keys.
C4_Witness ==
  /\ last.op = "get"
  /\ ~HasKey(heap[last.node].data, last.arg[1])
  /\ IsContainer(last.arg[2])
  /\ last.ret = last.arg[2]
  /\ Unaccessed(heap, last.node) # <<>>

(***************************************************************************)
(* C5.  The claim as stated: values() and items() mark every key of the    *)
(* node's raw mapping accessed however far the caller consumes the lazy    *)
(* sequence returned (not at all, partially, to the end), and the elements *)
(* yielded are the values in raw-mapping order, each wrapped.              *)
(***************************************************************************)
C5_ValuesMarksAll ==
  (last.op \in {"values", "items"}) =>
    /\ RawKeys(heap[last.node].data) \subseteq heap[last.node].accessed
    /\ \A i \in DOMAIN last.ret.items :
         LET item == heap[last.node].data.items[i]
             got == IF last.op = "items" THEN last.ret.items[i].v ELSE last.ret.items[i]
         IN /\ last.op = "items" => last.ret.items[i].k = item.k
            /\ got = IF IsContainer(item.v) THEN NodeRef(heap[last.node].children[item.k]) ELSE item.v

(***************************************************************************)
(* C6.  The non-marking operations (map: membership test, iteration over   *)
(* keys, keys(), length, truthiness, raw, accessed_keys(), unaccessed(),   *)
(* equality; sequence: length, truthiness, raw, unaccessed(), equality)    *)
(* change no node's accessed-set or child cache and create no node, so     *)
(* unaccessed() of every node is the same list before and after.           *)
(***************************************************************************)
C6_NonMarkingFrame ==
  [][NonMarking(heap, last') =>
       /\ DOMAIN heap' = DOMAIN heap
       /\ \A m \in DOMAIN heap :
            /\ heap'[m].accessed = heap[m].accessed
            /\ heap'[m].children = heap[m].children
            /\ Unaccessed(heap', m) = Unaccessed(heap, m)
    ]_vars

\* A membership test on a node that has accessed keys, a cached child and
\* keys still to report.
C6_Witness ==
  /\ last.op = "contains"
  /\ heap[last.node].accessed # {}
  /\ DOMAIN heap[last.node].children # {}
  /\ Unaccessed(heap, last.node) # <<>>

(***************************************************************************)
(* C7.  Path composition: the root's path is empty; a child's path is its  *)
(* parent's path extended by ".key" for a map key (the key alone when the  *)
(* parent's path is empty) or by "[index]" for a sequence position; the    *)
(* paths unaccessed() reports are composed the same way from the path of   *)
(* the node that holds the key.  In {"a":{"b":[{"c":1,"d":2}]}} the node   *)
(* a.b[0] with d unread makes the root report "a.b[0].d"; a root sequence  *)
(* [{"a":1,"b":2}, 7] with element 0 read and b unread reports "[0].b".    *)
(***************************************************************************)
C7_PathComposition ==
  /\ heap[1].path = <<>>
  /\ \A n \in DOMAIN heap : \A k \in DOMAIN heap[n].children :
       heap[heap[n].children[k]].path =
         IF heap[n].data.t = "dict"
         THEN IF heap[n].path = <<>> THEN k ELSE heap[n].path \o <<46>> \o k
         ELSE heap[n].path \o <<91>> \o IntToStr(k) \o <<93>>
  /\ Elems(Unaccessed(heap, 1)) =
       {IF heap[e.node].path = <<>> THEN e.key ELSE heap[e.node].path \o <<46>> \o e.key : e \in Entries(heap, 1)}
  /\ \A n \in DOMAIN heap :
       (heap[1].data = TreeDeep /\ heap[n].path = pathAB0 /\ kd \notin heap[n].accessed) =>
         pathAB0D \in Elems(Unaccessed(heap, 1))
  /\ (heap[1].data = TreeRootList /\ Cached(heap, 1, 0) /\ kb \notin heap[heap[1].children[0]].accessed) =>
       path0B \in Elems(Unaccessed(heap, 1))

\* The example of the claim: a.b[0].c was read, d was not.
C7_Witness ==
  /\ heap[1].data = TreeDeep
  /\ \E n \in DOMAIN heap :
       /\ heap[n].path = pathAB0
       /\ kc \in heap[n].accessed
       /\ kd \notin heap[n].accessed
  /\ pathAB0D \in Elems(Unaccessed(heap, 1))

(***************************************************************************)
(* C8.  unaccessed() of a sequence node is the sorted concatenation of the *)
(* unaccessed() lists of its cached children: it is sorted, each path      *)
(* occurs in it as often as in the children's lists together, no path is   *)
(* that of an element of the sequence itself, and with no cached child it  *)
(* is empty, whatever the elements hold.                                   *)
(***************************************************************************)
C8_ListUnaccessed ==
  \A n \in DOMAIN heap :
    heap[n].data.t = "list" =>
      LET u == Unaccessed(heap, n)
          below == UNION {Elems(Unaccessed(heap, heap[n].children[k])) : k \in DOMAIN heap[n].children}
      IN /\ IsSorted(u)
         /\ Elems(u) = below
         /\ \A p \in below : Count(u, p) = SumCount(heap, n, DOMAIN heap[n].children, p)
         /\ \A i \in (-Len(heap[n].data.items)) .. (Len(heap[n].data.items) - 1) :
              heap[n].path \o <<91>> \o IntToStr(i) \o <<93>> \notin Elems(u)
         /\ DOMAIN heap[n].children = {} => u = <<>>

\* A sequence with a scalar element, a child cached under index 0 that has
\* unread keys, and the same element not read under its negative index.
C8_Witness ==
  \E n \in DOMAIN heap :
    /\ heap[n].data.t = "list"
    /\ \E i \in DOMAIN heap[n].data.items : heap[n].data.items[i].t = "scalar"
    /\ Cached(heap, n, 0)
    /\ Unaccessed(heap, heap[n].children[0]) # <<>>
    /\ ~Cached(heap, n, -Len(heap[n].data.items))
    /\ Unaccessed(heap, n) = Unaccessed(heap, heap[n].children[0])

(***************************************************************************)
(* C9.  unaccessed() on a freshly constructed root map node, before any    *)
(* other operation, is the sorted list of the top-level keys of the raw    *)
(* mapping, each once and nothing else, whatever the values are.           *)
(***************************************************************************)
C9_FreshRoot ==
  (last.op = "init" /\ heap[1].data.t = "dict") =>
    LET u == Unaccessed(heap, 1)
    IN /\ Len(u) = Len(heap[1].data.items)
       /\ Elems(u) = RawKeys(heap[1].data)
       /\ \A i \in DOMAIN u : \A j \in DOMAIN u : i < j => StrLess(u[i], u[j])

\* A fresh root over a mapping that holds a nested mapping and whose keys are
\* not in sorted order.
C9_Witness ==
  /\ last.op = "init"
  /\ heap[1].data.t = "dict"
  /\ \E i \in DOMAIN heap[1].data.items : IsContainer(heap[1].data.items[i].v)
  /\ \E i \in DOMAIN heap[1].data.items : \E j \in DOMAIN heap[1].data.items :
       i < j /\ StrLess(heap[1].data.items[j].k, heap[1].data.items[i].k)

(***************************************************************************)
(* C10.  Idempotence: after any read or mark operation (M[k], get(k),      *)
(* S[i], values()/items() and sequence iteration consumed to any length,   *)
(* mark_accessed(keys), mark_all_accessed()), performing the same          *)
(* operation again leaves every node's accessed-set and child cache, and   *)
(* the root's unaccessed(), as they are.                                   *)
(***************************************************************************)
C10_Idempotent ==
  [][LET c == last'
         again == IF c.op = "getitem" /\ heap'[c.node].data.t = "dict" THEN GetItemHeap(heap', c.node, c.arg)
                  ELSE IF c.op = "getitem" THEN ListGetItemHeap(heap', c.node, c.arg)
                  ELSE IF c.op = "get" THEN GetHeap(heap', c.node, c.arg[1])
                  ELSE IF c.op = "values" THEN ValuesHeap(heap', c.node, c.arg)
                  ELSE IF c.op = "items" THEN ItemsHeap(heap', c.node, c.arg)
                  ELSE IF c.op = "iter" /\ heap'[c.node].data.t = "list" THEN ListIterHeap(heap', c.node, c.arg)
                  ELSE IF c.op = "mark_accessed" THEN MarkAccessedHeap(heap', c.node, c.arg)
                  ELSE IF c.op = "mark_all_accessed" THEN MarkAllAccessedHeap(heap', c.node)
                  ELSE heap'
     IN /\ again = heap'
        /\ Unaccessed(again, 1) = Unaccessed(heap', 1)
    ]_vars

\* A full values() iteration over a node whose children were already wrapped
\* and used.
C10_Witness ==
  /\ last.op = "values"
  /\ last.ret.done
  /\ \E k \in DOMAIN heap[last.node].children : heap[heap[last.node].children[k]].accessed # {}

(***************************************************************************)
(* C11.  Monotonicity: across every operation of the public interface,     *)
(* failing lookups included, every node stays in the heap with its raw     *)
(* value and path, the accessed-key set of every node after the operation  *)
(* is a superset of the set before it, and every entry of every node's     *)
(* child cache is still there and still names the same child.              *)
(***************************************************************************)
C11_Monotone ==
  [][\A n \in DOMAIN heap :
       /\ n \in DOMAIN heap'
       /\ heap'[n].data = heap[n].data
       /\ heap'[n].path = heap[n].path
       /\ heap[n].accessed \subseteq heap'[n].accessed
       /\ \A k \in DOMAIN heap[n].children :
            /\ Cached(heap', n, k)
            /\ heap'[n].children[k] = heap[n].children[k]
    ]_vars

\* A failing lookup on a map node that already has other accessed keys and a
\* cached child: the absent key joined the set, nothing left it.
C11_Witness ==
  /\ last.op = "getitem"
  /\ last.ret = Error("KeyError")
  /\ last.arg \in heap[last.node].accessed
  /\ heap[last.node].accessed \cap RawKeys(heap[last.node].data) # {}
  /\ DOMAIN heap[last.node].children # {}

(***************************************************************************)
(* C12.  Error outcomes.  An indexed lookup M[k] of a key the raw mapping  *)
(* does not hold fails with KeyError; an indexed lookup S[i] with i        *)
(* outside -len .. len-1 fails with IndexError.  After either failure no   *)
(* node was created, no child cache changed, unaccessed() of every node is *)
(* what it was, and the only change is that the map's accessed-set holds   *)
(* the absent key.  No other call fails: a lookup of a present key or of   *)
(* an index within bounds does not, nor does any other operation.          *)
(***************************************************************************)
C12_ErrorOutcomes ==
  [][LET c == last'
         missingKey == c.op = "getitem" /\ heap[c.node].data.t = "dict" /\ c.arg \notin RawKeys(heap[c.node].data)
         outOfRange == /\ c.op = "getitem"
                       /\ heap[c.node].data.t = "list"
                       /\ (c.arg < -Len(heap[c.node].data.items) \/ c.arg >= Len(heap[c.node].data.items))
     IN (c.op \notin {"idle", "init"}) =>
          /\ missingKey =>
               /\ c.ret = Error("KeyError")
               /\ heap' = [heap EXCEPT ![c.node].accessed = @ \cup {c.arg}]
          /\ outOfRange =>
               /\ c.ret = Error("IndexError")
               /\ heap' = heap
          /\ (missingKey \/ outOfRange) =>
               /\ DOMAIN heap' = DOMAIN heap
               /\ \A m \in DOMAIN heap :
                    /\ heap'[m].children = heap[m].children
                    /\ Unaccessed(heap', m) = Unaccessed(heap, m)
          /\ (c.ret.t = "error") <=> (missingKey \/ outOfRange)
    ]_vars

\* A sequence with a cached child that has unread keys is indexed one below
\* its lowest valid (negative) index.
C12_Witness ==
  /\ last.op = "getitem"
  /\ last.ret = Error("IndexError")
  /\ last.arg < 0
  /\ DOMAIN heap[last.node].children # {}
  /\ Unaccessed(heap, last.node) # <<>>

(***************************************************************************)
(* C13.  Equality is independent of the tracking state.  A map (sequence)  *)
(* node compared with a plain mapping (sequence) or with a node of the     *)
(* same variant is equal exactly when the two raw values are equal as      *)
(* Python compares them: equal when the contents are the same, also with   *)
(* the items of a mapping in another order, whatever the accessed-sets and *)
(* child caches of the two nodes are, and unequal when the contents        *)
(* differ.                                                                 *)
(***************************************************************************)
C13_EqIgnoresTracking ==
  (last.op = "eq") =>
    LET mine == heap[last.node].data
        o == last.arg
        theirs == IF o.t = "node" THEN heap[o.id].data ELSE o
    IN (theirs.t = mine.t) =>
         /\ last.ret.b <=> RawEq(mine, theirs)
         /\ (theirs = mine \/ theirs = Reordered(mine)) => last.ret.b
         /\ (theirs.t = "dict" /\ RawKeys(theirs) # RawKeys(mine)) => ~last.ret.b
         /\ (theirs.t = "list" /\ Len(theirs.items) # Len(mine.items)) => ~last.ret.b

\* Two distinct nodes over equal raw mappings, one with keys accessed and the
\* other with none, compare equal.
C13_Witness ==
  /\ last.op = "eq"
  /\ last.arg.t = "node"
  /\ last.arg.id # last.node
  /\ heap[last.node].data.t = "dict"
  /\ heap[last.arg.id].data = heap[last.node].data
  /\ heap[last.node].accessed # heap[last.arg.id].accessed
  /\ last.ret.b

(***************************************************************************)
(* C14.  accessed_keys() returns a snapshot.  The set returned holds the   *)
(* node's accessed keys of the moment of the call; no later read or mark   *)
(* changes what it holds; and when the caller changes it (adds or discards *)
(* a key) no node's accessed-set, no child cache and no unaccessed()       *)
(* result changes.                                                         *)
(***************************************************************************)
C14_Snapshot ==
  [][/\ last'.op = "accessed_keys" => SetKeys(heap', held') = heap[last'.node].accessed
     /\ (held.node # 0 /\ last'.op \notin {"accessed_keys", "set.add", "set.discard"}) =>
          SetKeys(heap', held') = SetKeys(heap, held)
     /\ last'.op \in {"set.add", "set.discard"} =>
          /\ heap' = heap
          /\ \A m \in DOMAIN heap : Unaccessed(heap', m) = Unaccessed(heap, m)
    ]_vars

\* The caller added a key to the set it was given, a key the node has not
\* accessed, and the node has since accessed a key the set does not hold.
C14_Witness ==
  /\ held.node # 0
  /\ last.op = "set.add"
  /\ last.arg \in RawKeys(heap[held.node].data)
  /\ last.arg \notin heap[held.node].accessed
  /\ heap[held.node].accessed \ SetKeys(heap, held) # {}
  /\ last.arg \in Elems(Unaccessed(heap, held.node))

\* The element of node n's raw value a key or index designates: a key itself,
\* for a sequence the position counted from the start.
Position(h, n, k) == IF h[n].data.t = "list" /\ k < 0 THEN Len(h[n].data.items) + k ELSE k

(***************************************************************************)
(* C15.  The claim as stated, single creation: at most one tracked node is *)
(* ever created for a raw mapping or sequence value of the tree, also when *)
(* a sequence element is read through a negative index and through its     *)
(* non-negative equivalent: two cache entries of a node that designate the *)
(* same element name the same child.                                       *)
(***************************************************************************)
C15_SingleCreation ==
  \A n \in DOMAIN heap : \A k1 \in DOMAIN heap[n].children : \A k2 \in DOMAIN heap[n].children :
    Position(heap, n, k1) = Position(heap, n, k2) => heap[n].children[k1] = heap[n].children[k2]

\* The tracked nodes constructed for key or index k of node n.
WrappersFor(h, n, k) == {m \in DOMAIN h : m # n /\ h[m].path = PathUnder(h, n, k) /\ h[m].data = RawAt(h, n, k)}

(***************************************************************************)
(* C16.  With each read of the two threads made under one lock of the      *)
(* callers, no key or index of the node ever has two child wrappers, and   *)
(* two finished reads of the same key returned the same node.  Whenever    *)
(* two wrappers exist for a key, or two readers of a key hold different    *)
(* nodes, the callers used no lock and both threads ran the check of the   *)
(* child cache before either stored its child.                             *)
(***************************************************************************)
C16_LockSerializes ==
  /\ threads.useLock =>
       /\ \A k \in RaceKeysFor(1) : Cardinality(WrappersFor(heap, 1, k)) <= 1
       /\ \A t1 \in RaceThreads : \A t2 \in RaceThreads :
            (threads.th[t1].pc = "done" /\ threads.th[t2].pc = "done" /\ threads.th[t1].key = threads.th[t2].key) =>
              threads.th[t1].ret = threads.th[t2].ret
       /\ \A t1 \in RaceThreads : \A t2 \in RaceThreads :
            (t1 # t2 /\ threads.th[t1].pc \notin {"idle", "done"}) => threads.th[t2].pc \in {"idle", "done"}
  /\ \A k \in RaceKeysFor(1) :
       Cardinality(WrappersFor(heap, 1, k)) > 1 =>
         /\ ~threads.useLock
         /\ \A t \in RaceThreads : threads.th[t].key = k /\ threads.th[t].miss

\* The race: without a lock both threads read the same key for the first time,
\* two wrappers were constructed for it, and the two reads returned different
\* nodes.
C16_Witness ==
  /\ ~threads.useLock
  /\ \A t \in RaceThreads : threads.th[t].pc = "done"
  /\ threads.th[1].key = threads.th[2].key
  /\ threads.th[1].ret.t = "node"
  /\ threads.th[2].ret.t = "node"
  /\ threads.th[1].ret # threads.th[2].ret
  /\ Cardinality(WrappersFor(heap, 1, threads.th[1].key)) = 2

(***************************************************************************)
(* C17.  mark_all_accessed() is not recursive: it adds exactly the keys of *)
(* the node's raw mapping to the node's accessed-set and changes nothing   *)
(* else: no node is created, every other node keeps its accessed-set, and  *)
(* every child cache is unchanged.  A child wrapped before keeps its own   *)
(* unaccessed() result, and the node still reports those paths.            *)
(***************************************************************************)
C17_MarkAllNotRecursive ==
  [][last'.op = "mark_all_accessed" =>
       LET n == last'.node
       IN /\ heap'[n].accessed = heap[n].accessed \cup RawKeys(heap[n].data)
          /\ DOMAIN heap' = DOMAIN heap
          /\ \A m \in DOMAIN heap :
               /\ m # n => heap'[m].accessed = heap[m].accessed
               /\ heap'[m].children = heap[m].children
          /\ \A k \in DOMAIN heap[n].children :
               /\ Unaccessed(heap', heap[n].children[k]) = Unaccessed(heap, heap[n].children[k])
               /\ Elems(Unaccessed(heap, heap[n].children[k])) \subseteq Elems(Unaccessed(heap', n))
          /\ \A e \in Entries(heap', n) : e.node # n
    ]_vars

\* mark_all_accessed() on a node that had unread keys of its own and has a
\* wrapped child with unread keys, which are still reported.
C17_Witness ==
  /\ last.op = "mark_all_accessed"
  /\ \E k \in DOMAIN heap[last.node].children :
       /\ heap[heap[last.node].children[k]].data.t = "dict"
       /\ RawKeys(heap[heap[last.node].children[k]].data) \ heap[heap[last.node].children[k]].accessed # {}
       /\ heap[heap[last.node].children[k]].accessed # {}
  /\ Unaccessed(heap, last.node) # <<>>

(***************************************************************************)
(* C18.  In every reachable state unaccessed() of a map node is sorted and *)
(* holds each path exactly as often as: the raw keys not in the accessed-  *)
(* set have it as their own path, plus the unaccessed() lists of the       *)
(* children cached under accessed raw keys hold it.  An accessed key with  *)
(* no cached child contributes nothing, and nothing from below a key that  *)
(* is not accessed is reported.                                            *)
(***************************************************************************)
C18_DictUnaccessed ==
  \A n \in DOMAIN heap :
    heap[n].data.t = "dict" =>
      LET u == Unaccessed(heap, n)
          unread == RawKeys(heap[n].data) \ heap[n].accessed
          below == {k \in DOMAIN heap[n].children : k \in heap[n].accessed /\ k \in RawKeys(heap[n].data)}
          own(p) == Cardinality({k \in unread : ChildPath(heap[n].path, k) = p})
          all == {ChildPath(heap[n].path, k) : k \in unread}
                   \cup UNION {Elems(Unaccessed(heap, heap[n].children[k])) : k \in below}
      IN /\ IsSorted(u)
         /\ Elems(u) = all
         /\ \A p \in all : Count(u, p) = own(p) + SumCount(heap, n, below, p)
         /\ \A k \in unread : \A e \in Entries(heap, n) :
              /\ Reported(heap, n, k)
              /\ Cached(heap, n, k) => e.node \notin Subtree(heap, heap[n].children[k])
         /\ \A k \in heap[n].accessed : ~Reported(heap, n, k)

\* A map node with an unread key of its own, an accessed key whose cached child
\* has unread keys, and the report holding both.
C18_Witness ==
  \E n \in DOMAIN heap :
    /\ heap[n].data.t = "dict"
    /\ RawKeys(heap[n].data) \ heap[n].accessed # {}
    /\ \E k \in heap[n].accessed :
         /\ Cached(heap, n, k)
         /\ Unaccessed(heap, heap[n].children[k]) # <<>>
         /\ Len(Unaccessed(heap, n)) =
              Cardinality(RawKeys(heap[n].data) \ heap[n].accessed) + Len(Unaccessed(heap, heap[n].children[k]))

(***************************************************************************)
(* C19.  Cache consistency: in every state reached through the public      *)
(* operations, every key of a map node's child cache is a key of the raw   *)
(* mapping, its value is a mapping or sequence, the key is in the node's   *)
(* accessed-set, and the cached child wraps that value (under the key's    *)
(* path) as a TrackedDict for a mapping and a TrackedList for a sequence.  *)
(***************************************************************************)
C19_CacheConsistent ==
  \A n \in DOMAIN heap :
    heap[n].cls = "TrackedDict" =>
      \A k \in DOMAIN heap[n].children :
        LET child == heap[heap[n].children[k]]
        IN /\ k \in RawKeys(heap[n].data)
           /\ k \in heap[n].accessed
           /\ \E i \in DOMAIN heap[n].data.items :
                /\ heap[n].data.items[i].k = k
                /\ heap[n].data.items[i].v.t \in {"dict", "list"}
                /\ child.data = heap[n].data.items[i].v
                /\ child.cls = IF heap[n].data.items[i].v.t = "dict" THEN "TrackedDict" ELSE "TrackedList"
           /\ heap[n].children[k] \in DOMAIN heap
           /\ heap[n].children[k] # n

\* A map node with a cached TrackedList child and, below it, a map node with
\* a cached child of its own: children created by get, values and lookups.
C19_Witness ==
  /\ \E n \in DOMAIN heap :
       /\ heap[n].cls = "TrackedDict"
       /\ \E k \in DOMAIN heap[n].children : heap[heap[n].children[k]].cls = "TrackedList"
  /\ \E n \in DOMAIN heap :
       /\ heap[n].cls = "TrackedDict"
       /\ \E k \in DOMAIN heap[n].children : heap[heap[n].children[k]].cls = "TrackedDict"
  /\ last.op \in {"values", "items", "get"}
  /\ last.ret.t \in {"node", "yielded"}

(***************************************************************************)
(* C20.  The claim as stated, path uniqueness: for every raw tree with     *)
(* string keys, the empty key and keys holding '.' or '[' included, two    *)
(* distinct unaccessed (node, key) pairs are reported under distinct path  *)
(* strings, so the root's unaccessed() never holds a path twice.           *)
(***************************************************************************)
C20_PathsUnique ==
  /\ \A e1 \in Entries(heap, 1) : \A e2 \in Entries(heap, 1) :
       e1.path = e2.path => (e1.node = e2.node /\ e1.key = e2.key)
  /\ \A p \in Elems(Unaccessed(heap, 1)) : Count(Unaccessed(heap, 1), p) = 1

====
